---- MODULE Spec2Model ----
(***************************************************************************)
(* CSV import pipeline and staged-transaction lifecycle of the personal    *)
(* finance application: CSVImportService (csv-import-service.ts), its two  *)
(* API routes (/api/import/csv and /api/import/transactions) and the part  *)
(* of the Prisma store they read and write.                                *)
(*                                                                         *)
(* Text is modelled as TLA+ strings and handled character by character.    *)
(* Amounts are fixed-point numbers in hundredths (150.50 is 15050).        *)
(***************************************************************************)
EXTENDS Integers, Sequences, FiniteSets, TLC

(***************************************************************************)
(* Bounds of the model.                                                    *)
(***************************************************************************)
MaxRows == 3        \* data lines of an uploaded file in SpecImport
MaxTxns == 2        \* staged transactions the store holds in Spec and SpecConc
MaxIds == 2         \* length of the id list of one promote or delete call
MaxCols == 3        \* columns of the header of an uploaded file in SpecHeader
MaxLineLen == 4     \* characters of a line handed to the tokenizer in SpecTokens
MaxPreviewRows == 12 \* data lines of an uploaded file in SpecPreview
MaxKindRows == 2    \* data lines of an uploaded file in SpecKinds

(***************************************************************************)
(* JavaScript values.  NULL stands for both undefined and null: every use  *)
(* in the modelled code treats the two alike (?., ||, !x).                 *)
(***************************************************************************)
NULL == "<null>"

Truthy(s) == s # NULL /\ s # ""

(***************************************************************************)
(* String helpers: characters are strings of length one.                   *)
(***************************************************************************)
CharAt(s, i) == SubSeq(s, i, i)

IsSpace(c) == c \in {" ", "\t", "\r", "\n"}

RECURSIVE FirstSolid(_, _)
\* the first position from i on that holds no white space, or Len(s) + 1
FirstSolid(s, i) ==
    IF i <= Len(s) /\ IsSpace(CharAt(s, i)) THEN FirstSolid(s, i + 1) ELSE i

RECURSIVE LastSolid(_, _)
\* the last position up to i that holds no white space, or 0
LastSolid(s, i) ==
    IF i >= 1 /\ IsSpace(CharAt(s, i)) THEN LastSolid(s, i - 1) ELSE i

TrimLeft(s) == SubSeq(s, FirstSolid(s, 1), Len(s))

\* String.prototype.trim
Trim(s) == SubSeq(s, FirstSolid(s, 1), LastSolid(s, Len(s)))

Min(S) == CHOOSE a \in S : \A b \in S : a <= b
Max(S) == CHOOSE a \in S : \A b \in S : a >= b

\* x?.trim()
OptTrim(s) == IF s = NULL THEN NULL ELSE Trim(s)

LowerOf ==
    [c \in {"A", "B", "C", "D", "E", "F", "G", "H", "I", "J", "K", "L", "M",
            "N", "O", "P", "Q", "R", "S", "T", "U", "V", "W", "X", "Y", "Z"} |->
        CASE c = "A" -> "a" [] c = "B" -> "b" [] c = "C" -> "c" [] c = "D" -> "d"
          [] c = "E" -> "e" [] c = "F" -> "f" [] c = "G" -> "g" [] c = "H" -> "h"
          [] c = "I" -> "i" [] c = "J" -> "j" [] c = "K" -> "k" [] c = "L" -> "l"
          [] c = "M" -> "m" [] c = "N" -> "n" [] c = "O" -> "o" [] c = "P" -> "p"
          [] c = "Q" -> "q" [] c = "R" -> "r" [] c = "S" -> "s" [] c = "T" -> "t"
          [] c = "U" -> "u" [] c = "V" -> "v" [] c = "W" -> "w" [] c = "X" -> "x"
          [] c = "Y" -> "y" [] c = "Z" -> "z"]

LowerChar(c) == IF c \in DOMAIN LowerOf THEN LowerOf[c] ELSE c

RECURSIVE ToLowerCase(_)
\* String.prototype.toLowerCase
ToLowerCase(s) ==
    IF Len(s) = 0 THEN s ELSE LowerChar(CharAt(s, 1)) \o ToLowerCase(Tail(s))

\* String.prototype.includes
Includes(s, sub) ==
    \E i \in 1..(Len(s) - Len(sub) + 1) : SubSeq(s, i, i + Len(sub) - 1) = sub

RECURSIVE SplitFrom(_, _)
\* the lines of s from position i on, one step per line
SplitFrom(s, i) ==
    LET breaks == {k \in i..Len(s) : CharAt(s, k) = "\n"}
    IN  IF breaks = {} THEN << SubSeq(s, i, Len(s)) >>
        ELSE << SubSeq(s, i, Min(breaks) - 1) >> \o SplitFrom(s, Min(breaks) + 1)

\* String.prototype.split('\n')
SplitLines(s) == SplitFrom(s, 1)

RECURSIVE RemoveCurrency(_)
\* .replace(/[$,]/g, '')
RemoveCurrency(s) ==
    IF Len(s) = 0 THEN s
    ELSE IF CharAt(s, 1) \in {"$", ","} THEN RemoveCurrency(Tail(s))
    ELSE CharAt(s, 1) \o RemoveCurrency(Tail(s))

DigitOf ==
    [c \in {"0", "1", "2", "3", "4", "5", "6", "7", "8", "9"} |->
        CASE c = "0" -> 0 [] c = "1" -> 1 [] c = "2" -> 2 [] c = "3" -> 3 [] c = "4" -> 4
          [] c = "5" -> 5 [] c = "6" -> 6 [] c = "7" -> 7 [] c = "8" -> 8 [] c = "9" -> 9]

IsDigit(c) == c \in DOMAIN DigitOf

DigitVal(c) == DigitOf[c]

RECURSIVE DigitRun(_, _)
\* number of consecutive digits of s starting at position i
DigitRun(s, i) ==
    IF i <= Len(s) /\ IsDigit(CharAt(s, i)) THEN 1 + DigitRun(s, i + 1) ELSE 0

RECURSIVE DigitsValue(_, _, _)
\* value of the n digits of s starting at position i
DigitsValue(s, i, n) ==
    IF n = 0 THEN 0 ELSE DigitsValue(s, i, n - 1) * 10 + DigitVal(CharAt(s, i + n - 1))

(***************************************************************************)
(* parseFloat: optional leading white space, optional sign, digits with an *)
(* optional fraction; the longest numeric prefix is the value and the rest *)
(* of the string is ignored; NaN when there is no such prefix.  The value  *)
(* is kept in hundredths; fraction digits beyond the second are dropped    *)
(* (the inputs of the model have at most two).                             *)
(***************************************************************************)
NaN == [nan |-> TRUE, v |-> 0]

ParseFloat(str) ==
    LET s == TrimLeft(str)
        hasSign == Len(s) > 0 /\ CharAt(s, 1) \in {"-", "+"}
        neg == hasSign /\ CharAt(s, 1) = "-"
        p == IF hasSign THEN 2 ELSE 1
        nInt == DigitRun(s, p)
        hasDot == p + nInt <= Len(s) /\ CharAt(s, p + nInt) = "."
        nFrac == IF hasDot THEN DigitRun(s, p + nInt + 1) ELSE 0
        intVal == DigitsValue(s, p, nInt)
        fracVal == IF nFrac = 0 THEN 0
                   ELSE IF nFrac = 1 THEN 10 * DigitsValue(s, p + nInt + 1, 1)
                   ELSE DigitsValue(s, p + nInt + 1, 2)
        mag == intVal * 100 + fracVal
    IN  IF nInt = 0 /\ nFrac = 0 THEN NaN
        ELSE [nan |-> FALSE, v |-> IF neg THEN 0 - mag ELSE mag]

Abs(n) == IF n < 0 THEN 0 - n ELSE n

(***************************************************************************)
(* new Date(string): the two shapes the import guide names and the model's *)
(* files use, YYYY-MM-DD and MM/DD/YYYY; any other text is an Invalid Date *)
(* (getTime() is NaN).                                                     *)
(***************************************************************************)
InvalidDate == [valid |-> FALSE, y |-> 0, m |-> 0, d |-> 0]

MkDate(y, m, d) ==
    IF m \in 1..12 /\ d \in 1..31 THEN [valid |-> TRUE, y |-> y, m |-> m, d |-> d]
    ELSE InvalidDate

NewDate(s) ==
    IF /\ Len(s) = 10
       /\ DigitRun(s, 1) = 4 /\ CharAt(s, 5) = "-"
       /\ DigitRun(s, 6) = 2 /\ CharAt(s, 8) = "-"
       /\ DigitRun(s, 9) = 2
    THEN MkDate(DigitsValue(s, 1, 4), DigitsValue(s, 6, 2), DigitsValue(s, 9, 2))
    ELSE IF /\ Len(s) = 10
            /\ DigitRun(s, 1) = 2 /\ CharAt(s, 3) = "/"
            /\ DigitRun(s, 4) = 2 /\ CharAt(s, 6) = "/"
            /\ DigitRun(s, 7) = 4
    THEN MkDate(DigitsValue(s, 7, 4), DigitsValue(s, 1, 2), DigitsValue(s, 4, 2))
    ELSE InvalidDate

(***************************************************************************)
(* CSVImportService.parseCSVLine: split a line at the commas outside       *)
(* quotes; a quote toggles the quoted mode and is dropped; every value is  *)
(* trimmed.                                                                *)
(***************************************************************************)
RECURSIVE ParseLineKeepQuotes(_, _, _, _, _)
\* a tokenizer loop that toggles the quoted mode and keeps the quote in the value
ParseLineKeepQuotes(line, i, current, inQuotes, values) ==
    IF i > Len(line) THEN Append(values, Trim(current))
    ELSE LET char == CharAt(line, i)
         IN  IF char = "\""
             THEN ParseLineKeepQuotes(line, i + 1, current \o char, ~inQuotes, values)
             ELSE IF char = "," /\ ~inQuotes
                  THEN ParseLineKeepQuotes(line, i + 1, "", inQuotes, Append(values, Trim(current)))
             ELSE ParseLineKeepQuotes(line, i + 1, current \o char, inQuotes, values)

RECURSIVE ParseLineFrom(_, _, _, _, _)
ParseLineFrom(line, i, current, inQuotes, values) ==
    IF i > Len(line) THEN Append(values, Trim(current))
    ELSE LET char == CharAt(line, i)
         IN  IF char = "\"" THEN ParseLineFrom(line, i + 1, current, ~inQuotes, values)
             ELSE IF char = "," /\ ~inQuotes
                  THEN ParseLineFrom(line, i + 1, "", inQuotes, Append(values, Trim(current)))
             ELSE ParseLineFrom(line, i + 1, current \o char, inQuotes, values)

parseCSVLine(line) == ParseLineFrom(line, 1, "", FALSE, <<>>)

(***************************************************************************)
(* CSVImportService.detectColumnMapping.  A mapping is a function from the *)
(* roles that were assigned to zero-based column indexes; a role outside   *)
(* its domain is undefined.                                                *)
(***************************************************************************)
Roles == <<"date", "description", "amount", "type", "category">>

\* a\s?b against the whole string
MatchOptSpace(s, a, b) ==
    \/ s = a \o b
    \/ /\ Len(s) = Len(a) + Len(b) + 1
       /\ SubSeq(s, 1, Len(a)) = a
       /\ IsSpace(CharAt(s, Len(a) + 1))
       /\ SubSeq(s, Len(a) + 2, Len(s)) = b

\* patterns[field].test(columnName), all patterns carrying the i flag
PatternTest(field, columnName) ==
    LET s == ToLowerCase(columnName)
    IN  CASE field = "date" ->
                 \/ s = "date"
                 \/ MatchOptSpace(s, "transaction", "date")
                 \/ MatchOptSpace(s, "posted", "date")
          [] field = "description" ->
                 s \in {"description", "memo", "transaction", "detail", "details"}
          [] field = "amount" -> s \in {"amount", "value", "sum", "total"}
          [] field = "type" ->
                 \/ s = "type"
                 \/ MatchOptSpace(s, "transaction", "type")
                 \/ s = "debit/credit"
          [] field = "category" -> s \in {"category", "merchant", "vendor"}

Defined(mapping, field) == field \in DOMAIN mapping

Assign(mapping, field, i) ==
    [f \in DOMAIN mapping \cup {field} |-> IF f = field THEN i ELSE mapping[f]]

RECURSIVE DetectFromCatchAll(_, _, _)
\* a loop that files a column matching no pattern under category
DetectFromCatchAll(header, k, mapping) ==
    IF k > Len(header) THEN mapping
    ELSE LET columnName == Trim(header[k])
             hits == {r \in 1..Len(Roles) : PatternTest(Roles[r], columnName)}
             first == IF hits = {} THEN Len(Roles) ELSE Min(hits)
         IN  DetectFromCatchAll(header, k + 1, Assign(mapping, Roles[first], k - 1))

RECURSIVE DetectFrom(_, _, _)
\* the loop over the header; k is the one-based position of column k - 1
DetectFrom(header, k, mapping) ==
    IF k > Len(header) THEN mapping
    ELSE LET columnName == Trim(header[k])
             hits == {r \in 1..Len(Roles) : PatternTest(Roles[r], columnName)}
         IN  IF hits = {} THEN DetectFrom(header, k + 1, mapping)
             ELSE LET first == CHOOSE r \in hits : \A q \in hits : r <= q
                  IN  DetectFrom(header, k + 1, Assign(mapping, Roles[first], k - 1))

\* !mapping.date: undefined and the index 0 are both falsy
DateMissing(mapping) == ~Defined(mapping, "date") \/ mapping["date"] = 0

\* a required columns check that asks for the date column alone
OnlyDateRequired(mapping) == DateMissing(mapping)

RequiredMissing(mapping) ==
    \/ DateMissing(mapping)
    \/ ~Defined(mapping, "description")
    \/ ~Defined(mapping, "amount")

detectColumnMapping(header) ==
    LET mapping == DetectFrom(header, 1, [f \in {} |-> 0])
    IN  IF RequiredMissing(mapping)
        THEN [valid |-> FALSE, mapping |-> [f \in {} |-> 0],
              error |-> "Required columns not found: date, description, and amount are mandatory"]
        ELSE [valid |-> TRUE, mapping |-> mapping, error |-> NULL]

(***************************************************************************)
(* CSVImportService.mapCSVRow.  The result is <<row>> or, for null, <<>>.  *)
(***************************************************************************)
\* values[mapping.field]: undefined for an undefined role or a short row
ValueAt(values, mapping, field) ==
    IF Defined(mapping, field) /\ mapping[field] + 1 \in 1..Len(values)
    THEN values[mapping[field] + 1]
    ELSE NULL

IncomeKeywords == {"credit", "deposit", "income", "+"}
ExpenseKeywords == {"debit", "withdrawal", "expense", "payment", "-"}

RowType(mapping, typeStr, amount) ==
    IF Defined(mapping, "type") /\ Truthy(typeStr)
    THEN IF \E t \in IncomeKeywords : Includes(typeStr, t) THEN "income"
         ELSE IF \E t \in ExpenseKeywords : Includes(typeStr, t) THEN "expense"
         ELSE "expense"
    ELSE IF amount > 0 THEN "income" ELSE "expense"

AmountRejected(amount) == amount.nan \/ amount.v <= 0

mapCSVRow(values, mapping) ==
    LET date == OptTrim(ValueAt(values, mapping, "date"))
        description == OptTrim(ValueAt(values, mapping, "description"))
        rawAmount == ValueAt(values, mapping, "amount")
        amountStr == IF rawAmount = NULL THEN NULL ELSE RemoveCurrency(Trim(rawAmount))
        rawType == ValueAt(values, mapping, "type")
        typeStr == IF rawType = NULL THEN NULL ELSE ToLowerCase(Trim(rawType))
        category == IF Defined(mapping, "category")
                    THEN OptTrim(ValueAt(values, mapping, "category"))
                    ELSE NULL
        amount == ParseFloat(amountStr)
    IN  IF ~Truthy(date) \/ ~Truthy(description) \/ ~Truthy(amountStr) THEN <<>>
        ELSE IF AmountRejected(amount) THEN <<>>
        ELSE << [date |-> date,
                 description |-> description,
                 amount |-> Abs(amount.v),
                 type |-> RowType(mapping, typeStr, amount.v),
                 category |-> category] >>

(***************************************************************************)
(* CSVImportService.parseCSVContent.  Nothing in the row loop throws, so   *)
(* parseErrors stays empty and a row mapCSVRow refuses is dropped without  *)
(* a record.                                                               *)
(***************************************************************************)
RECURSIVE ParseRowsFrom(_, _, _, _)
ParseRowsFrom(lines, i, mapping, parsedRows) ==
    IF i > Len(lines) THEN parsedRows
    ELSE LET line == Trim(lines[i])
         IN  IF line = "" THEN ParseRowsFrom(lines, i + 1, mapping, parsedRows)
             ELSE ParseRowsFrom(lines, i + 1, mapping,
                                parsedRows \o mapCSVRow(parseCSVLine(line), mapping))

ParseFailure(error) == [success |-> FALSE, error |-> error, rows |-> <<>>]

\* a parseCSVContent without the lines.length < 2 return
parseCSVContentAnyLength(csvContent) ==
    IF Trim(csvContent) = "" THEN ParseFailure("Empty CSV file")
    ELSE LET lines == SplitLines(Trim(csvContent))
             columnMapping == detectColumnMapping(parseCSVLine(lines[1]))
         IN  IF ~columnMapping.valid THEN ParseFailure(columnMapping.error)
             ELSE LET parsedRows == ParseRowsFrom(lines, 2, columnMapping.mapping, <<>>)
                  IN  IF Len(parsedRows) = 0
                      THEN ParseFailure("No valid data rows found in CSV")
                      ELSE [success |-> TRUE, error |-> NULL, rows |-> parsedRows]

parseCSVContent(csvContent) ==
    IF Trim(csvContent) = "" THEN ParseFailure("Empty CSV file")
    ELSE LET lines == SplitLines(Trim(csvContent))
         IN  IF Len(lines) < 2
             THEN ParseFailure("CSV file must have a header row and at least one data row")
             ELSE LET columnMapping == detectColumnMapping(parseCSVLine(lines[1]))
                  IN  IF ~columnMapping.valid THEN ParseFailure(columnMapping.error)
                      ELSE LET parsedRows == ParseRowsFrom(lines, 2, columnMapping.mapping, <<>>)
                           IN  IF Len(parsedRows) = 0
                               THEN ParseFailure("No valid data rows found in CSV")
                               ELSE [success |-> TRUE, error |-> NULL, rows |-> parsedRows]

(***************************************************************************)
(* CSVImportService.validateCSVRow: the error text, or NULL for a valid    *)
(* row.  row.amount is a number by construction of mapCSVRow.              *)
(***************************************************************************)
validateCSVRow(row) ==
    IF ~Truthy(row.date) \/ ~Truthy(row.description) \/ row.amount = 0 \/ ~Truthy(row.type)
    THEN "Missing required fields: date, description, amount, or type"
    ELSE IF ~NewDate(row.date).valid THEN "Invalid date format"
    ELSE IF row.amount <= 0 THEN "Amount must be a positive number"
    ELSE IF row.type \notin {"income", "expense"}
    THEN "Type must be either \"income\" or \"expense\""
    ELSE NULL

(***************************************************************************)
(* CSVImportService.importTransactions.  The loop is run as a function of  *)
(* the rows: it yields the report and the data of the rows it created, in  *)
(* order.  faults is the set of row numbers at which                       *)
(* prisma.transaction.create throws.                                       *)
(***************************************************************************)
PreviewLimit == 10

\* x || null
OrNull(s) == IF Truthy(s) THEN s ELSE NULL

\* create data that carry the direction in the sign of the amount
StagedDataSigned(userId, row, source) ==
    [type |-> row.type,
     amount |-> IF row.type = "expense" THEN 0 - row.amount ELSE row.amount,
     description |-> Trim(row.description),
     date |-> NewDate(row.date),
     category |-> OrNull(OptTrim(row.category)),
     source |-> Trim(source),
     imported |-> TRUE,
     processed |-> FALSE,
     userId |-> userId]

\* the data handed to prisma.transaction.create
StagedData(userId, row, source) ==
    [type |-> row.type,
     amount |-> row.amount,
     description |-> Trim(row.description),
     date |-> NewDate(row.date),
     category |-> OrNull(OptTrim(row.category)),
     source |-> Trim(source),
     imported |-> TRUE,
     processed |-> FALSE,
     userId |-> userId]

EmptyResults == [successful |-> 0, failed |-> 0, errors |-> <<>>, preview |-> <<>>]

\* a loop that counts a failed row without recording its error
RowFailedSilent(results, rowNumber, error) ==
    [results EXCEPT !.failed = @ + 1]

RowFailed(results, rowNumber, error) ==
    [results EXCEPT !.failed = @ + 1,
                    !.errors = Append(@, [row |-> rowNumber, error |-> error])]

\* a loop that pushes every imported row to the preview
RowImportedUnbounded(results, row) ==
    [results EXCEPT !.successful = @ + 1, !.preview = Append(@, row)]

RowImported(results, row) ==
    [results EXCEPT !.successful = @ + 1,
                    !.preview = IF Len(@) < PreviewLimit THEN Append(@, row) ELSE @]

RECURSIVE ImportLoop(_, _, _, _, _, _)
\* i is the loop index of the code, counted from 0
ImportLoop(userId, csvData, source, faults, i, acc) ==
    IF i >= Len(csvData) THEN acc
    ELSE LET row == csvData[i + 1]
             rowNumber == i + 1
             error == validateCSVRow(row)
         IN  IF error # NULL
             THEN ImportLoop(userId, csvData, source, faults, i + 1,
                      [acc EXCEPT !.results = RowFailed(@, rowNumber, error)])
             ELSE IF rowNumber \in faults
             THEN ImportLoop(userId, csvData, source, faults, i + 1,
                      [acc EXCEPT !.results = RowFailed(@, rowNumber, "Failed to import")])
             ELSE ImportLoop(userId, csvData, source, faults, i + 1,
                      [results |-> RowImported(acc.results, row),
                       created |-> Append(acc.created, StagedData(userId, row, source))])

importTransactions(userId, csvData, source, faults) ==
    IF Len(csvData) = 0
    THEN [success |-> FALSE, error |-> "No data provided for import",
          results |-> EmptyResults, created |-> <<>>]
    ELSE LET out == ImportLoop(userId, csvData, source, faults, 0,
                               [results |-> EmptyResults, created |-> <<>>])
         IN  [success |-> TRUE, error |-> NULL,
              results |-> out.results, created |-> out.created]

(***************************************************************************)
(* The store and the requests in flight.                                   *)
(*                                                                         *)
(*   transactions  prisma.transaction: id -> staged transaction            *)
(*   nextTxnId     the next id the store assigns to a staged transaction   *)
(*   categories    prisma.category, in creation order                      *)
(*   incomes       prisma.income, in creation order                        *)
(*   expenses      prisma.expense, in creation order                       *)
(*   calls         the processTransactions call of each request slot: its  *)
(*                 arguments, its locals and the await it stands at        *)
(*   reply         the last response sent, with the request it answers     *)
(*                                                                         *)
(* A ledger record carries the id of the staged transaction it was made    *)
(* from (from); the code does not store it, the properties below read it.  *)
(***************************************************************************)
VARIABLES transactions, nextTxnId, categories, incomes, expenses, calls, reply

vars == <<transactions, nextTxnId, categories, incomes, expenses, calls, reply>>

Users == {"u1", "u2"}
Slots == {1, 2}
TxnIds == 1..MaxTxns

(***************************************************************************)
(* The category table is managed by the category pages and not by the      *)
(* import pipeline; a behaviour starts from one of these tables and keeps  *)
(* it.  u1 owns two categories, with or without one named Food; u2 owns    *)
(* one, or none at all.                                                    *)
(***************************************************************************)
Category(id, name, userId) == [id |-> id, name |-> name, userId |-> userId]

DefaultCategories ==
    << Category(1, "Rent", "u1"), Category(2, "Food", "u1"), Category(3, "Misc", "u2") >>

CategoryTables ==
    { DefaultCategories,
      << Category(1, "Rent", "u1"), Category(2, "Food", "u1") >>,
      << Category(1, "Rent", "u1"), Category(2, "Travel", "u1"), Category(3, "Misc", "u2") >> }

NoReply == [op |-> "none"]
NoResults == [incomeCreated |-> 0, expensesCreated |-> 0, errors |-> <<>>]
IdleCall == [pc |-> "idle", user |-> NULL, ids |-> <<>>, cm |-> <<>>, cats |-> <<>>,
             i |-> 0, txn |-> <<>>, results |-> NoResults]

Init ==
    /\ transactions = [id \in {} |-> 0]
    /\ nextTxnId = 1
    /\ categories \in CategoryTables
    /\ incomes = <<>>
    /\ expenses = <<>>
    /\ calls = [p \in Slots |-> IdleCall]
    /\ reply = NoReply

(***************************************************************************)
(* Store primitives.                                                       *)
(***************************************************************************)
RECURSIVE InsertAll(_, _, _)
\* prisma.transaction.create for each element of created, in order
InsertAll(table, firstId, created) ==
    IF created = <<>> THEN table
    ELSE InsertAll([id \in DOMAIN table \cup {firstId} |->
                       IF id = firstId
                       THEN Head(created)
                       ELSE table[id]],
                   firstId + 1, Tail(created))

\* prisma.category.findMany({ where: { userId } })
UserCategories(userId) ==
    LET Owned(cat) == cat.userId = userId IN SelectSeq(categories, Owned)

\* a findFirst without userId in its where clause; it finds other users' rows too
FindAnyOwner(id, userId) ==
    IF id \in DOMAIN transactions /\ ~transactions[id].processed
    THEN << transactions[id] >>
    ELSE <<>>

\* a findFirst without processed: false in its where clause; it finds committed rows too
FindAnyState(id, userId) ==
    IF id \in DOMAIN transactions /\ transactions[id].userId = userId
    THEN << transactions[id] >>
    ELSE <<>>

\* prisma.transaction.findFirst({ where: { id, userId, processed: false } })
FindUnprocessed(id, userId) ==
    IF /\ id \in DOMAIN transactions
       /\ transactions[id].userId = userId
       /\ ~transactions[id].processed
    THEN << transactions[id] >>
    ELSE <<>>

\* a deleteMany with only the id list in its where clause
DeleteSetListed(userId, transactionIds) ==
    {id \in DOMAIN transactions : \E k \in 1..Len(transactionIds) : transactionIds[k] = id}

\* a deleteMany without processed: false in its where clause
DeleteSetAnyState(userId, transactionIds) ==
    {id \in DOMAIN transactions :
        /\ \E k \in 1..Len(transactionIds) : transactionIds[k] = id
        /\ transactions[id].userId = userId}

\* a deleteMany without userId in its where clause
DeleteSetAnyOwner(userId, transactionIds) ==
    {id \in DOMAIN transactions :
        /\ \E k \in 1..Len(transactionIds) : transactionIds[k] = id
        /\ ~transactions[id].processed}

\* the rows prisma.transaction.deleteMany({ where: { id: { in }, userId, processed: false } }) removes
DeleteSet(userId, transactionIds) ==
    {id \in DOMAIN transactions :
        /\ \E k \in 1..Len(transactionIds) : transactionIds[k] = id
        /\ transactions[id].userId = userId
        /\ ~transactions[id].processed}

(***************************************************************************)
(* POST /api/import/csv (route.ts): the file type check, parseCSVContent,  *)
(* importTransactions, and the response.  A request is                     *)
(*   [user, fileName, fileType, content, source, faults].                  *)
(* The handler reads nothing of the store and only creates rows, so its    *)
(* awaits commute with every other handler and it runs in one step.        *)
(***************************************************************************)
EndsWith(s, suffix) ==
    Len(s) >= Len(suffix) /\ SubSeq(s, Len(s) - Len(suffix) + 1, Len(s)) = suffix

ImportRejected(status, error) ==
    [op |-> "import", status |-> status, success |-> FALSE, error |-> error,
     data |-> EmptyResults, created |-> <<>>]

\* the response, with the rows the call created; parseResult.data.rows is an array
\* whenever parseResult.success
ImportOutcome(req) ==
    IF ~Includes(req.fileType, "csv") /\ ~EndsWith(req.fileName, ".csv")
    THEN ImportRejected(400, "File must be a CSV file")
    ELSE LET parseResult == parseCSVContent(req.content)
             source == IF Truthy(req.source) THEN req.source ELSE "CSV Import"
         IN  IF ~parseResult.success
             THEN ImportRejected(400, parseResult.error)
             ELSE LET importResult ==
                          importTransactions(req.user, parseResult.rows, source, req.faults)
                  IN  IF ~importResult.success
                      THEN ImportRejected(400, importResult.error)
                      ELSE [op |-> "import", status |-> 200, success |-> TRUE,
                            error |-> NULL, data |-> importResult.results,
                            created |-> importResult.created]

\* the effect of the request with outcome out on the store, and its response;
\* room: the number of rows the store of the model still takes
Respond(req, out, room) ==
    /\ Len(out.created) <= room
    /\ transactions' = InsertAll(transactions, nextTxnId, out.created)
    /\ nextTxnId' = nextTxnId + Len(out.created)
    /\ reply' = [op |-> "import", req |-> req, status |-> out.status,
                 success |-> out.success, error |-> out.error, data |-> out.data]
    /\ UNCHANGED <<categories, incomes, expenses, calls>>

ImportCsv(req, room) == \E out \in {ImportOutcome(req)} : Respond(req, out, room)

(***************************************************************************)
(* GET /api/import/transactions: CSVImportService.getUnprocessedTransactions.*)
(* createdAt follows the order of creation, which is the order of the ids. *)
(***************************************************************************)
RECURSIVE Descending(_)
Descending(ids) ==
    IF ids = {} THEN <<>> ELSE << Max(ids) >> \o Descending(ids \ {Max(ids)})

getUnprocessedTransactions(userId) ==
    [op |-> "list", user |-> userId, success |-> TRUE,
     data |-> Descending({id \in DOMAIN transactions :
                             /\ transactions[id].userId = userId
                             /\ transactions[id].imported
                             /\ ~transactions[id].processed})]

ListUnprocessed(userId) ==
    /\ reply' = getUnprocessedTransactions(userId)
    /\ UNCHANGED <<transactions, nextTxnId, categories, incomes, expenses, calls>>

(***************************************************************************)
(* DELETE /api/import/transactions:                                        *)
(* CSVImportService.deleteImportedTransactions, one deleteMany statement.  *)
(***************************************************************************)
DeleteImported(userId, transactionIds) ==
    /\ Len(transactionIds) > 0
    /\ LET gone == DeleteSet(userId, transactionIds)
       IN  /\ transactions' = [id \in DOMAIN transactions \ gone |-> transactions[id]]
           /\ reply' = [op |-> "delete", user |-> userId, ids |-> transactionIds,
                        success |-> TRUE, deleted |-> Cardinality(gone)]
    /\ UNCHANGED <<nextTxnId, categories, incomes, expenses, calls>>

(***************************************************************************)
(* POST /api/import/transactions: CSVImportService.processTransactions.    *)
(* Every await of the call is a step of its own, so that the calls of two  *)
(* requests interleave at the store accesses:                              *)
(*   PromoteStart   category.findMany and the zero-categories return       *)
(*   PromoteFind    transaction.findFirst of the id at position i          *)
(*   PromoteCreate  income.create or expense.create from the row read      *)
(*   PromoteUpdate  transaction.update({ where: { id } }), which throws    *)
(*                  when the row is gone                                   *)
(* The step that ends the last iteration also sends the response and       *)
(* frees the slot.                                                         *)
(***************************************************************************)
PushError(c, error) ==
    [c EXCEPT !.results.errors = Append(@, [id |-> c.ids[c.i], error |-> error])]

PromoteReply(c, success, error) ==
    [op |-> "promote", user |-> c.user, ids |-> c.ids, status |-> IF success THEN 200 ELSE 400,
     success |-> success, error |-> error, data |-> c.results]

\* the end of one iteration of the loop over transactionIds, for the call c of slot p
Advance(p, c) ==
    IF c.i + 1 > Len(c.ids)
    THEN /\ calls' = [calls EXCEPT ![p] = IdleCall]
         /\ reply' = PromoteReply(c, TRUE, NULL)
    ELSE /\ calls' = [calls EXCEPT ![p] = [c EXCEPT !.pc = "find", !.i = @ + 1, !.txn = <<>>]]
         /\ UNCHANGED reply

\* a processTransactions that enters its loop without looking at userCategories.length
PromoteStartUnchecked(p, userId, transactionIds, categoryMappings) ==
    /\ calls[p].pc = "idle"
    /\ Len(transactionIds) > 0
    /\ calls' = [calls EXCEPT ![p] =
           [IdleCall EXCEPT !.pc = "find", !.i = 1, !.user = userId, !.ids = transactionIds,
                            !.cm = categoryMappings, !.cats = UserCategories(userId)]]
    /\ reply' = NoReply
    /\ UNCHANGED <<transactions, nextTxnId, categories, incomes, expenses>>

PromoteStart(p, userId, transactionIds, categoryMappings) ==
    /\ calls[p].pc = "idle"
    /\ Len(transactionIds) > 0
    /\ LET userCategories == UserCategories(userId)
           c == [IdleCall EXCEPT !.user = userId, !.ids = transactionIds,
                                 !.cm = categoryMappings, !.cats = userCategories]
       IN  IF Len(userCategories) = 0
           THEN /\ reply' = PromoteReply(c, FALSE,
                       "No categories found. Please create categories before processing transactions.")
                /\ UNCHANGED calls
           ELSE /\ calls' = [calls EXCEPT ![p] = [c EXCEPT !.pc = "find", !.i = 1]]
                /\ reply' = NoReply
    /\ UNCHANGED <<transactions, nextTxnId, categories, incomes, expenses>>

\* a loop that marks the row processed as soon as it has found it, before the ledger write
PromoteFindFlipFirst(p) ==
    /\ calls[p].pc = "find"
    /\ LET c == calls[p]
           transaction == FindUnprocessed(c.ids[c.i], c.user)
       IN  IF transaction = <<>>
           THEN /\ Advance(p, PushError(c, "not found or already processed"))
                /\ UNCHANGED transactions
           ELSE /\ calls' = [calls EXCEPT ![p] = [c EXCEPT !.pc = "create", !.txn = transaction]]
                /\ transactions' = [transactions EXCEPT ![c.ids[c.i]].processed = TRUE]
                /\ UNCHANGED reply
    /\ UNCHANGED <<nextTxnId, categories, incomes, expenses>>

\* a loop that returns at the first id it does not find, instead of going on to the next
PromoteFindAbort(p) ==
    /\ calls[p].pc = "find"
    /\ LET c == calls[p]
           transaction == FindUnprocessed(c.ids[c.i], c.user)
       IN  IF transaction = <<>>
           THEN /\ calls' = [calls EXCEPT ![p] = IdleCall]
                /\ reply' = PromoteReply(PushError(c, "not found or already processed"),
                                         TRUE, NULL)
           ELSE /\ calls' = [calls EXCEPT ![p] = [c EXCEPT !.pc = "create", !.txn = transaction]]
                /\ UNCHANGED reply
    /\ UNCHANGED <<transactions, nextTxnId, categories, incomes, expenses>>

PromoteFind(p) ==
    /\ calls[p].pc = "find"
    /\ LET c == calls[p]
           transaction == FindUnprocessed(c.ids[c.i], c.user)
       IN  IF transaction = <<>>
           THEN Advance(p, PushError(c, "not found or already processed"))
           ELSE /\ calls' = [calls EXCEPT ![p] = [c EXCEPT !.pc = "create", !.txn = transaction]]
                /\ UNCHANGED reply
    /\ UNCHANGED <<transactions, nextTxnId, categories, incomes, expenses>>

\* cat.name.toLowerCase() === transaction.category?.toLowerCase()
NameMatches(cat, transaction) ==
    transaction.category # NULL /\ ToLowerCase(cat.name) = ToLowerCase(transaction.category)

\* a resolution that looks at the category name before the caller's mapping
ResolveNameFirst(c, transaction) ==
    LET transactionId == c.ids[c.i]
        Matching(cat) == NameMatches(cat, transaction)
        matching == SelectSeq(c.cats, Matching)
    IN  IF matching # <<>> THEN matching[1].id
        ELSE IF transactionId \in DOMAIN c.cm THEN c.cm[transactionId]
        ELSE c.cats[1].id

ResolveCategory(c, transaction) ==
    LET transactionId == c.ids[c.i]
        Matching(cat) == NameMatches(cat, transaction)
        matching == SelectSeq(c.cats, Matching)
    IN  IF transactionId \in DOMAIN c.cm THEN c.cm[transactionId]
        ELSE IF matching # <<>> THEN matching[1].id
        ELSE c.cats[1].id

IncomeData(c, transaction) ==
    [amount |-> transaction.amount,
     source |-> IF Truthy(transaction.category) THEN transaction.category ELSE "Imported",
     description |-> transaction.description,
     date |-> transaction.date,
     userId |-> c.user,
     from |-> c.ids[c.i]]

ExpenseData(c, transaction) ==
    [amount |-> transaction.amount,
     description |-> transaction.description,
     date |-> transaction.date,
     categoryId |-> ResolveCategory(c, transaction),
     userId |-> c.user,
     from |-> c.ids[c.i]]

\* a loop whose failed create is ignored: the iteration goes on to the update
PromoteCreateSwallow(p, fail) ==
    /\ calls[p].pc = "create"
    /\ LET c == calls[p]
           transaction == c.txn[1]
       IN  IF fail /\ transaction.type \in {"income", "expense"}
           THEN /\ calls' = [calls EXCEPT ![p] = [c EXCEPT !.pc = "update"]]
                /\ UNCHANGED <<incomes, expenses, reply>>
           ELSE IF transaction.type = "income"
           THEN /\ incomes' = Append(incomes, IncomeData(c, transaction))
                /\ calls' = [calls EXCEPT ![p] =
                       [c EXCEPT !.pc = "update", !.results.incomeCreated = @ + 1]]
                /\ UNCHANGED <<expenses, reply>>
           ELSE /\ expenses' = Append(expenses, ExpenseData(c, transaction))
                /\ calls' = [calls EXCEPT ![p] =
                       [c EXCEPT !.pc = "update", !.results.expensesCreated = @ + 1]]
                /\ UNCHANGED <<incomes, reply>>
    /\ UNCHANGED <<transactions, nextTxnId, categories>>

\* fail: the store throws on the create
PromoteCreate(p, fail) ==
    /\ calls[p].pc = "create"
    /\ LET c == calls[p]
           transaction == c.txn[1]
       IN  IF fail /\ transaction.type \in {"income", "expense"}
           THEN /\ Advance(p, PushError(c, "Failed to process"))
                /\ UNCHANGED <<incomes, expenses>>
           ELSE IF transaction.type = "income"
           THEN /\ incomes' = Append(incomes, IncomeData(c, transaction))
                /\ calls' = [calls EXCEPT ![p] =
                       [c EXCEPT !.pc = "update", !.results.incomeCreated = @ + 1]]
                /\ UNCHANGED <<expenses, reply>>
           ELSE IF transaction.type = "expense"
           THEN /\ expenses' = Append(expenses, ExpenseData(c, transaction))
                /\ calls' = [calls EXCEPT ![p] =
                       [c EXCEPT !.pc = "update", !.results.expensesCreated = @ + 1]]
                /\ UNCHANGED <<incomes, reply>>
           ELSE /\ calls' = [calls EXCEPT ![p] = [c EXCEPT !.pc = "update"]]
                /\ UNCHANGED <<incomes, expenses, reply>>
    /\ UNCHANGED <<transactions, nextTxnId, categories>>

PromoteUpdate(p) ==
    /\ calls[p].pc = "update"
    /\ LET c == calls[p]
           transactionId == c.ids[c.i]
       IN  IF transactionId \in DOMAIN transactions
           THEN /\ transactions' = [transactions EXCEPT ![transactionId].processed = TRUE]
                /\ Advance(p, c)
           ELSE /\ Advance(p, PushError(c, "Failed to process"))
                /\ UNCHANGED transactions
    /\ UNCHANGED <<nextTxnId, categories, incomes, expenses>>

(***************************************************************************)
(* Inputs.                                                                 *)
(***************************************************************************)
\* id lists of a promote or delete request
IdLists == UNION {[1..n -> TxnIds] : n \in 1..MaxIds}

\* categoryMappings: absent, or one category for every id of the request
Mappings(transactionIds) ==
    {<<>>} \cup {[id \in {transactionIds[k] : k \in 1..Len(transactionIds)} |-> cat] :
                    cat \in 1..Len(categories)}

HeaderTyped == "description,date,amount,type,category"

IncomeFile == HeaderTyped \o "\nSalary,2024-01-15,5000,credit,"
ExpenseFile == HeaderTyped \o "\nGroceries,01/16/2024,$150.50,debit,food"
BareExpenseFile == HeaderTyped \o "\nLunch,01/17/2024,12,debit,"
NoDateFile == "memo,value\nGroceries,150.50"
HeaderOnlyFile == HeaderTyped \o "\n"
BlankFile == " \n"
SignedFile == HeaderTyped \o "\nRefund,2024-01-16,-150.50,credit,\nFee,2024-01-17,0,debit,"

StagingFiles ==
    {IncomeFile, ExpenseFile, BareExpenseFile, NoDateFile, HeaderOnlyFile, BlankFile, SignedFile}

Uploads ==
    {[user |-> u, fileName |-> "bank.csv", fileType |-> "text/csv", content |-> f,
      source |-> "", faults |-> {}] : u \in Users, f \in StagingFiles}

\* ImportOutcome of every upload of Uploads, worked out once: it does not depend on the store
StagingOutcomes == [req \in Uploads |-> ImportOutcome(req)]

PostImportCsv(req) ==
    \E out \in {StagingOutcomes[req]} : Respond(req, out, MaxTxns + 1 - nextTxnId)

(***************************************************************************)
(* Spec: the requests of all users, one at a time: a request is handled to *)
(* its response before the next one arrives.                               *)
(***************************************************************************)
Quiet == \A p \in Slots : calls[p].pc = "idle"

Next ==
    \/ Quiet /\ \E req \in Uploads : PostImportCsv(req)
    \/ Quiet /\ \E u \in Users : ListUnprocessed(u)
    \/ Quiet /\ \E u \in Users, ids \in IdLists : DeleteImported(u, ids)
    \/ Quiet /\ \E u \in Users, ids \in IdLists :
                   \E cm \in Mappings(ids) : PromoteStart(1, u, ids, cm)
    \/ PromoteFind(1)
    \/ \E fail \in BOOLEAN : PromoteCreate(1, fail)
    \/ PromoteUpdate(1)

Spec == Init /\ [][Next]_vars

(***************************************************************************)
(* SpecConc: requests overlap; the processTransactions calls of two        *)
(* requests, each for one id, interleave with each other and with delete   *)
(* requests at their awaits.                                               *)
(***************************************************************************)
SingleIds == [1..1 -> TxnIds]

NextConc ==
    \/ Quiet /\ \E req \in Uploads : PostImportCsv(req)
    \/ \E u \in Users, ids \in SingleIds : DeleteImported(u, ids)
    \/ \E p \in Slots, u \in Users, ids \in SingleIds : PromoteStart(p, u, ids, <<>>)
    \/ \E p \in Slots : PromoteFind(p)
    \/ \E p \in Slots : PromoteCreate(p, FALSE)
    \/ \E p \in Slots : PromoteUpdate(p)

SpecConc == Init /\ [][NextConc]_vars

(***************************************************************************)
(* SpecImport: one upload into the empty store, drawn from every file of a *)
(* header line and up to MaxRows data lines, with at most one row at which *)
(* the store refuses the insert.                                           *)
(***************************************************************************)
Headers ==
    { "description,date,amount",
      "Memo, Posted Date ,VALUE,debit/credit",
      "date,description,amount",
      "date,memo,value,debit/credit",
      "memo,value" }

DataLines ==
    { "Salary,2024-01-15,5000,credit",
      "\"Coffee, and Bagels\",01/16/2024,$4.50,debit",
      "Rent,2024-01-17,abc,debit",
      ",2024-01-18,20,debit",
      "Gas,notadate,45,debit",
      "Refund,2024-01-16,-150.50,credit",
      "01/16/2024,Walmart,150.50,debit",
      "" }

RECURSIVE JoinLines(_, _)
\* the text of a file: header, then each data line after a line break
JoinLines(text, lines) ==
    IF lines = <<>> THEN text ELSE JoinLines(text \o "\n" \o Head(lines), Tail(lines))

ImportFiles ==
    {""} \cup
    {JoinLines(h, body) : h \in Headers, body \in UNION {[1..n -> DataLines] : n \in 0..MaxRows}}

ImportUploads ==
    {[user |-> "u1", fileName |-> "bank.csv", fileType |-> "text/csv", content |-> f,
      source |-> " bank.csv ", faults |-> IF k = 0 THEN {} ELSE {k}] :
        f \in ImportFiles, k \in 0..MaxRows}
    \cup
    {[user |-> "u1", fileName |-> "notes.txt", fileType |-> "text/plain",
      content |-> "description,date,amount\nSalary,2024-01-15,5000",
      source |-> "", faults |-> {}]}

UploadCsv(req) == reply = NoReply /\ ImportCsv(req, MaxRows)

\* the import reads no category: one category table stands for all
InitImport == Init /\ categories = DefaultCategories

NextImport == \E req \in ImportUploads : UploadCsv(req)

SpecImport == InitImport /\ [][NextImport]_vars

(***************************************************************************)
(* SpecPreview: one upload into the empty store of a file of up to         *)
(* MaxPreviewRows data rows, more than the preview holds.  Row j carries   *)
(* the amount j; the rows of a set of positions carry a text that is not a *)
(* date, and the store refuses the insert at a set of row numbers.         *)
(***************************************************************************)
DecimalDigits == <<"0", "1", "2", "3", "4", "5", "6", "7", "8", "9">>

RECURSIVE Numeral(_)
\* the decimal text of a natural number
Numeral(n) ==
    IF n < 10 THEN DecimalDigits[n + 1]
    ELSE Numeral(n \div 10) \o DecimalDigits[(n % 10) + 1]

PreviewLine(j, undated) ==
    "Item " \o Numeral(j) \o ","
        \o (IF j \in undated THEN "notadate" ELSE "2024-01-15") \o "," \o Numeral(j)

PreviewFile(n, undated) ==
    JoinLines("description,date,amount", [j \in 1..n |-> PreviewLine(j, undated)])

UndatedSets == {{}, {2}, {1, 11}}
FaultSets == {{}, {1}, {10}, {3, 11}}

PreviewUploads ==
    {[user |-> "u1", fileName |-> "bank.csv", fileType |-> "text/csv",
      content |-> PreviewFile(n, undated), source |-> "", faults |-> faults] :
        n \in 0..MaxPreviewRows, undated \in UndatedSets, faults \in FaultSets}

UploadPreview(req) == reply = NoReply /\ ImportCsv(req, MaxPreviewRows)

NextPreview == \E req \in PreviewUploads : UploadPreview(req)

SpecPreview == InitImport /\ [][NextPreview]_vars

(***************************************************************************)
(* SpecKinds: one upload into the empty store of a file with a type column *)
(* and up to MaxKindRows valid data rows, each with a positive amount and  *)
(* a type cell that is absent, empty, a keyword, or a word that is no      *)
(* keyword.                                                                *)
(***************************************************************************)
\* the type cell of a data line: no cell, or one token
KindCells == {<<>>, <<"">>, <<"credit">>, <<"debit">>, <<"other">>, <<"Transfer">>}
KindAmounts == {"50", "7.25"}

KindRows == {[amount |-> a, cell |-> c] : a \in KindAmounts, c \in KindCells}

KindLine(j, row) ==
    "Row " \o Numeral(j) \o ",2024-01-15," \o row.amount
        \o (IF row.cell = <<>> THEN "" ELSE "," \o row.cell[1])

KindFile(rows) ==
    JoinLines("description,date,amount,type", [j \in 1..Len(rows) |-> KindLine(j, rows[j])])

KindUploads ==
    {[user |-> "u1", fileName |-> "bank.csv", fileType |-> "text/csv",
      content |-> KindFile(rows), source |-> "", faults |-> {}] :
        rows \in UNION {[1..n -> KindRows] : n \in 1..MaxKindRows}}

UploadKinds(req) == reply = NoReply /\ ImportCsv(req, MaxKindRows)

NextKinds == \E req \in KindUploads : UploadKinds(req)

SpecKinds == InitImport /\ [][NextKinds]_vars

(***************************************************************************)
(* SpecHeader: one upload into the empty store of a file whose header is   *)
(* any row of up to MaxCols column names and whose one data row has a      *)
(* value in every column that is a date, a description and an amount alike *)
(* (parseFloat reads 2024 from it).                                        *)
(***************************************************************************)
ColumnNames == {"date", "Posted Date", "memo", "value", "type", "Vendor", "notes"}

HeaderRows == UNION {[1..n -> ColumnNames] : n \in 1..MaxCols}

RECURSIVE JoinValues(_)
\* the line of a row of values
JoinValues(values) ==
    IF Len(values) = 1 THEN values[1]
    ELSE values[1] \o "," \o JoinValues(Tail(values))

AnyRoleLine == "2024-01-15,2024-01-15,2024-01-15,2024-01-15"

HeaderUploads ==
    {[user |-> "u1", fileName |-> "bank.csv", fileType |-> "text/csv",
      content |-> JoinValues(h) \o "\n" \o AnyRoleLine,
      source |-> "", faults |-> {}] : h \in HeaderRows}

UploadHeader(req) == reply = NoReply /\ ImportCsv(req, MaxRows)

NextHeader == \E req \in HeaderUploads : UploadHeader(req)

SpecHeader == InitImport /\ [][NextHeader]_vars

(***************************************************************************)
(* SpecTokens: parseCSVLine applied to every line of up to MaxLineLen      *)
(* characters over a letter, the comma, the quote and the space, and to    *)
(* the lines of DataLines; the response carries the line and its values.   *)
(***************************************************************************)
LineChars == {"a", ",", "\"", " "}

RECURSIVE TextOf(_)
\* the string of a sequence of characters
TextOf(chars) == IF chars = <<>> THEN "" ELSE Head(chars) \o TextOf(Tail(chars))

TokenLines ==
    {TextOf(chars) : chars \in UNION {[1..n -> LineChars] : n \in 0..MaxLineLen}}
    \cup DataLines
    \cup {"2024-01-01,\"Coffee, and Bagels\",4.50,expense"}

Tokenize(line) ==
    /\ reply = NoReply
    /\ reply' = [op |-> "tokenize", line |-> line, values |-> parseCSVLine(line)]
    /\ UNCHANGED <<transactions, nextTxnId, categories, incomes, expenses, calls>>

NextTokens == \E line \in TokenLines : Tokenize(line)

SpecTokens == InitImport /\ [][NextTokens]_vars

(***************************************************************************)
(* Properties of promotion and deletion.                                   *)
(***************************************************************************)
\* the number of ledger records made from the staged transaction id
LedgerFrom(id) ==
    Cardinality({k \in 1..Len(incomes) : incomes[k].from = id})
    + Cardinality({k \in 1..Len(expenses) : expenses[k].from = id})

Occurrences(seq, x) == Cardinality({k \in 1..Len(seq) : seq[k] = x})

\* the errors of the call of slot p after a step: in the response once the call has returned
ErrorsAfter(p) == IF calls'[p].pc = "idle" THEN reply'.data.errors ELSE calls'[p].results.errors

C2_AtMostOnePromotionSucceeds ==
    \A id \in TxnIds : LedgerFrom(id) <= 1

(***************************************************************************)
(* C3.  Under every interleaving of processTransactions and                *)
(* deleteImportedTransactions, a staged transaction has at most one ledger *)
(* record, and a ledger record made from a staged id exists only while     *)
(* that staged transaction is in the store, which is committed once no     *)
(* call is in flight.                                                      *)
(***************************************************************************)
C3_NeverLostOrDoubleApplied ==
    \A id \in TxnIds :
        /\ LedgerFrom(id) <= 1
        /\ LedgerFrom(id) >= 1 =>
              /\ id \in DOMAIN transactions
              /\ Quiet => transactions[id].processed

(***************************************************************************)
(* C4.  A committed staged transaction stays: no step of an import, list,  *)
(* promote or delete request of any user removes it, changes one of its    *)
(* fields (processed included) or adds a ledger record made from it.       *)
(***************************************************************************)
C4_CommittedIsImmutable ==
    [][\A id \in DOMAIN transactions :
          transactions[id].processed =>
              /\ id \in DOMAIN transactions'
              /\ transactions'[id] = transactions[id]
              /\ LedgerFrom(id)' = LedgerFrom(id)]_vars

\* the owner of a committed transaction has just asked to delete it, and it is still there
C4_Witness ==
    /\ reply.op = "delete"
    /\ \E id \in DOMAIN transactions :
          /\ transactions[id].processed
          /\ transactions[id].userId = reply.user
          /\ Occurrences(reply.ids, id) >= 1
          /\ LedgerFrom(id) = 1

(***************************************************************************)
(* C5.  A delete request removes exactly the listed staged transactions    *)
(* that belong to the caller and are not committed; every other staged     *)
(* transaction and the whole ledger stay as they are; the response is a    *)
(* success whose deleted is the number of rows removed; afterwards none of *)
(* the listed ids is an uncommitted row of the caller, so that the same    *)
(* request repeated removes nothing and succeeds with deleted = 0.         *)
(***************************************************************************)
C5_DeleteRemovesOnlyUncommitted ==
    [][reply'.op = "delete" =>
          LET listed == {reply'.ids[k] : k \in 1..Len(reply'.ids)}
              pending == {id \in DOMAIN transactions :
                             /\ id \in listed
                             /\ transactions[id].userId = reply'.user
                             /\ ~transactions[id].processed}
          IN  /\ DOMAIN transactions' = DOMAIN transactions \ pending
              /\ \A id \in DOMAIN transactions' : transactions'[id] = transactions[id]
              /\ UNCHANGED <<incomes, expenses, categories>>
              /\ reply'.success
              /\ reply'.deleted = Cardinality(pending)
              /\ \A id \in DOMAIN transactions' :
                    id \in listed /\ transactions'[id].userId = reply'.user
                        => transactions'[id].processed
              /\ (reply.op = "delete" /\ reply.user = reply'.user /\ reply.ids = reply'.ids)
                    => (transactions' = transactions /\ reply'.deleted = 0)]_vars

\* a delete of one committed and one uncommitted transaction of the caller has removed the latter
C5_Witness ==
    /\ reply.op = "delete"
    /\ reply.success
    /\ reply.deleted = 1
    /\ \E a \in TxnIds, b \in TxnIds :
          /\ Occurrences(reply.ids, a) = 1
          /\ Occurrences(reply.ids, b) = 1
          /\ a \in DOMAIN transactions
          /\ transactions[a].processed
          /\ transactions[a].userId = reply.user
          /\ LedgerFrom(a) = 1
          /\ b \notin DOMAIN transactions
          /\ b < nextTxnId

(***************************************************************************)
(* Properties of the import.  The uploaded file is read here line by line  *)
(* as the design of the importer reads it: line 1 is the header, every     *)
(* later line that is not blank is a data row, and a data row is valid or  *)
(* fails normalization for one of three reasons.                           *)
(***************************************************************************)
CsvUpload(req) == Includes(req.fileType, "csv") \/ EndsWith(req.fileName, ".csv")

\* the column roles of the header line of the file
HeaderRoles(lines) == detectColumnMapping(parseCSVLine(lines[1]))

\* the line numbers of the data rows
DataRows(lines) == {n \in 2..Len(lines) : Trim(lines[n]) # ""}

\* the outcome of normalizing the data row with these tokens
RowVerdict(values, mapping) ==
    LET date == ValueAt(values, mapping, "date")
        description == ValueAt(values, mapping, "description")
        amount == ValueAt(values, mapping, "amount")
    IN  IF ~Truthy(date) \/ ~Truthy(description) \/ ~Truthy(amount)
        THEN "missing required field"
        ELSE IF LET a == ParseFloat(RemoveCurrency(amount)) IN a.nan \/ Abs(a.v) <= 0
        THEN "invalid amount"
        ELSE IF ~NewDate(date).valid THEN "invalid date format"
        ELSE "ok"

VerdictAt(lines, n) == RowVerdict(parseCSVLine(Trim(lines[n])), HeaderRoles(lines).mapping)

ValidRows(lines) == {n \in DataRows(lines) : VerdictAt(lines, n) = "ok"}

FailingRows(lines) == DataRows(lines) \ ValidRows(lines)

\* the data rows that reach the store or fail on their date alone, in file order the
\* rows importTransactions numbers 1, 2, ...
NumberedRows(lines) ==
    {n \in DataRows(lines) : VerdictAt(lines, n) \in {"ok", "invalid date format"}}

\* the valid rows whose insert the store refuses
RefusedRows(lines, faults) ==
    {n \in ValidRows(lines) :
        Cardinality({m \in NumberedRows(lines) : m <= n}) \in faults}

\* an upload whose file passed the file type check and whose header was accepted
Imported ==
    /\ reply.op = "import"
    /\ CsvUpload(reply.req)
    /\ Trim(reply.req.content) # ""
    /\ HeaderRoles(SplitLines(reply.req.content)).valid

(***************************************************************************)
(* C6.  For a file with an accepted header, n >= 1 valid data rows and k   *)
(* data rows that fail normalization, in any order, and a store that       *)
(* refuses no insert, the report has successful = n, failed = k and one    *)
(* entry of errors for each failing row.                                   *)
(***************************************************************************)
C6_CountsMatchRows ==
    LET lines == SplitLines(reply.req.content)
    IN  (Imported /\ reply.req.faults = {} /\ ValidRows(lines) # {}) =>
            /\ reply.success
            /\ reply.data.successful = Cardinality(ValidRows(lines))
            /\ reply.data.failed = Cardinality(FailingRows(lines))
            /\ Len(reply.data.errors) = Cardinality(FailingRows(lines))

(***************************************************************************)
(* C7.  Every entry of the report's errors carries as row the line number  *)
(* of a failing data row in the uploaded file, the header being line 1,    *)
(* and the entries are in file order without a repeated row.               *)
(***************************************************************************)
C7_RowNumbersAreFilePositions ==
    LET lines == SplitLines(reply.req.content)
        errors == reply.data.errors
    IN  (Imported /\ reply.success /\ reply.req.faults = {}) =>
            /\ \A k \in 1..Len(errors) : errors[k].row \in FailingRows(lines)
            /\ \A j \in 1..Len(errors), k \in 1..Len(errors) :
                  j < k => errors[j].row < errors[k].row

(***************************************************************************)
(* C8.  Whenever a data row of an accepted file fails, in normalization or *)
(* because the store refuses its insert, the import still answers with a   *)
(* report, and every valid row after the failing one that the store does   *)
(* not refuse is a staged transaction and is counted in successful.        *)
(***************************************************************************)
C8_RowFailureNeverAbortsBatch ==
    LET lines == SplitLines(reply.req.content)
        failed == FailingRows(lines) \cup RefusedRows(lines, reply.req.faults)
        kept == ValidRows(lines) \ RefusedRows(lines, reply.req.faults)
    IN  (Imported /\ failed # {}) =>
            /\ reply.success
            /\ reply.data.successful = Cardinality(kept)
            /\ Cardinality(DOMAIN transactions) = Cardinality(kept)
            /\ \A r \in failed, n \in kept :
                  n > r => \E id \in DOMAIN transactions :
                               /\ ~transactions[id].processed
                               /\ transactions[id].userId = reply.req.user
                               /\ transactions[id].description
                                     = ValueAt(parseCSVLine(Trim(lines[n])),
                                               HeaderRoles(lines).mapping, "description")

(***************************************************************************)
(* C9.  A file with an accepted header and at least one data row, all of   *)
(* whose data rows fail normalization, is answered with a successful       *)
(* report of successful = 0 and failed = the number of data rows.          *)
(***************************************************************************)
C9_AllRowsFailingIsAccepted ==
    LET lines == SplitLines(reply.req.content)
    IN  (Imported /\ DataRows(lines) # {} /\ ValidRows(lines) = {}) =>
            /\ reply.success
            /\ reply.status = 200
            /\ reply.data.successful = 0
            /\ reply.data.failed = Cardinality(DataRows(lines))

(***************************************************************************)
(* C10.  An upload that is rejected for its file (nothing but white space, *)
(* fewer than two lines, or a header without the mandatory columns) leaves *)
(* the store as it was, and its response is one failure that names the     *)
(* cause, with status 400 and without a report.                            *)
(***************************************************************************)
\* the cause for which the file as a whole is rejected, or NULL
FileFault(content) ==
    IF Trim(content) = "" THEN "Empty CSV file"
    ELSE IF Len(SplitLines(Trim(content))) < 2
    THEN "CSV file must have a header row and at least one data row"
    ELSE IF ~HeaderRoles(SplitLines(Trim(content))).valid
    THEN "Required columns not found: date, description, and amount are mandatory"
    ELSE NULL

C10_FileRejectionTouchesNothing ==
    [][(reply'.op = "import" /\ FileFault(reply'.req.content) # NULL) =>
          /\ UNCHANGED <<transactions, nextTxnId, categories, incomes, expenses>>
          /\ ~reply'.success
          /\ reply'.status = 400
          /\ reply'.error = FileFault(reply'.req.content)
          /\ reply'.data = EmptyResults]_vars

\* a file without a date column was rejected while the store held a staged transaction
C10_Witness ==
    /\ reply.op = "import"
    /\ ~reply.success
    /\ reply.req.content = NoDateFile
    /\ reply.error = "Required columns not found: date, description, and amount are mandatory"
    /\ DOMAIN transactions # {}

(***************************************************************************)
(* Properties of column role detection.                                    *)
(***************************************************************************)
MandatoryRoles == {"date", "description", "amount"}

\* the header row of the uploaded file
UploadedHeader == parseCSVLine(SplitLines(reply.req.content)[1])

\* the columns (counted from 0) of the header whose name matches the role
ColumnsOf(header, role) == {k \in 0..(Len(header) - 1) : PatternTest(role, Trim(header[k + 1]))}

RequiredColumnsError == "Required columns not found: date, description, and amount are mandatory"

(***************************************************************************)
(* C11.  Whenever the header of an uploaded file has a column matching the *)
(* date role, one matching the description role and one matching the       *)
(* amount role, at whatever positions, column 0 included, detection        *)
(* succeeds: it returns a map that sends each mandatory role to a column   *)
(* matching it, and the upload is not rejected for missing columns.        *)
(***************************************************************************)
C11_DetectionSucceedsAtAnyPosition ==
    (reply.op = "import"
        /\ \A role \in MandatoryRoles : ColumnsOf(UploadedHeader, role) # {}) =>
        LET detected == detectColumnMapping(UploadedHeader)
        IN  /\ detected.valid
            /\ \A role \in MandatoryRoles :
                  /\ role \in DOMAIN detected.mapping
                  /\ detected.mapping[role] \in ColumnsOf(UploadedHeader, role)
            /\ reply.error # RequiredColumnsError

(***************************************************************************)
(* C12.  Whenever the header of an uploaded file has no column matching    *)
(* the date role, or none matching the description role, or none matching  *)
(* the amount role, detection fails and the file is rejected as a whole:   *)
(* the response is the missing-columns failure with status 400 and no      *)
(* report, and no staged transaction is created.                           *)
(***************************************************************************)
C12_MissingRoleRejectsFile ==
    (reply.op = "import"
        /\ \E role \in MandatoryRoles : ColumnsOf(UploadedHeader, role) = {}) =>
        /\ ~detectColumnMapping(UploadedHeader).valid
        /\ ~reply.success
        /\ reply.status = 400
        /\ reply.error = RequiredColumnsError
        /\ reply.data = EmptyResults
        /\ DOMAIN transactions = {}
        /\ nextTxnId = 1

\* the file with header memo,value and a data row was rejected
C12_Witness ==
    /\ reply.op = "import"
    /\ UploadedHeader = << "memo", "value" >>
    /\ Len(SplitLines(reply.req.content)) = 2
    /\ ~reply.success
    /\ reply.error = RequiredColumnsError

(***************************************************************************)
(* Properties of the classification of rows.                               *)
(***************************************************************************)
\* the role map read off the header: each role with a matching column, at that column
RolesOf(header) ==
    [role \in {r \in {Roles[k] : k \in 1..Len(Roles)} : ColumnsOf(header, r) # {}} |->
        CHOOSE k \in ColumnsOf(header, role) : TRUE]

\* the values of data row n of the file
RowValues(lines, n) == parseCSVLine(Trim(lines[n]))

\* the data rows of the file that are valid under the role map read off the header
ValidUnder(lines) ==
    {n \in DataRows(lines) : RowVerdict(RowValues(lines, n), RolesOf(parseCSVLine(lines[1]))) = "ok"}

\* the signed amount of data row n, in hundredths
SignedAmount(lines, n) ==
    ParseFloat(RemoveCurrency(
        ValueAt(RowValues(lines, n), RolesOf(parseCSVLine(lines[1])), "amount"))).v

\* a staged transaction of the uploading user with the description of row n, the
\* magnitude of its amount, and this kind
StagedAs(lines, n, kind) ==
    \E id \in DOMAIN transactions :
        /\ transactions[id].userId = reply.req.user
        /\ transactions[id].description
              = ValueAt(RowValues(lines, n), RolesOf(parseCSVLine(lines[1])), "description")
        /\ transactions[id].amount = Abs(SignedAmount(lines, n))
        /\ transactions[id].type = kind

\* an upload of a CSV file with lines, none of whose inserts the store refuses
Uploaded ==
    /\ reply.op = "import"
    /\ CsvUpload(reply.req)
    /\ reply.req.faults = {}
    /\ Trim(reply.req.content) # ""

(***************************************************************************)
(* C13.  With a header that has the mandatory columns and no type column,  *)
(* every valid data row is staged with the magnitude of its amount and a   *)
(* kind given by the sign of the amount token: expense for a negative      *)
(* amount, income for a positive one.                                      *)
(***************************************************************************)
C13_SignClassifiesWithoutTypeColumn ==
    LET lines == SplitLines(reply.req.content)
    IN  (Uploaded /\ HeaderRoles(lines).valid /\ ColumnsOf(parseCSVLine(lines[1]), "type") = {}) =>
            \A n \in ValidUnder(lines) :
                StagedAs(lines, n, IF SignedAmount(lines, n) < 0 THEN "expense" ELSE "income")

(***************************************************************************)
(* C14.  With a header that has the mandatory columns and a type column,   *)
(* every valid data row whose type token contains an income keyword is     *)
(* staged as income, and otherwise every one whose type token contains an  *)
(* expense keyword is staged as expense, whatever the sign of its amount;  *)
(* the file date,memo,value,debit/credit with the one row                  *)
(* 01/16/2024,Walmart,150.50,debit is accepted and stages exactly one      *)
(* expense of 150.50.                                                      *)
(***************************************************************************)
C14_KeywordClassifiesWithTypeColumn ==
    LET lines == SplitLines(reply.req.content)
        roles == RolesOf(parseCSVLine(lines[1]))
        TypeToken(n) == ValueAt(RowValues(lines, n), roles, "type")
        Has(n, words) ==
            /\ TypeToken(n) # NULL
            /\ \E w \in words : Includes(ToLowerCase(TypeToken(n)), w)
    IN  (Uploaded /\ MandatoryRoles \cup {"type"} \subseteq DOMAIN roles) =>
            /\ \A n \in ValidUnder(lines) :
                  /\ Has(n, IncomeKeywords) => StagedAs(lines, n, "income")
                  /\ (~Has(n, IncomeKeywords) /\ Has(n, ExpenseKeywords))
                        => StagedAs(lines, n, "expense")
            /\ reply.req.content = "date,memo,value,debit/credit\n01/16/2024,Walmart,150.50,debit" =>
                  /\ reply.success
                  /\ DOMAIN transactions = {1}
                  /\ transactions[1].type = "expense"
                  /\ transactions[1].amount = 15050

(***************************************************************************)
(* C15.  In every reachable state every staged transaction has an amount   *)
(* above zero and the kind income or expense, and every ledger record has  *)
(* an amount above zero, that of the staged transaction it was made from,  *)
(* and lies in the table of that transaction's kind: no amount carries a   *)
(* sign.                                                                   *)
(***************************************************************************)
C15_AmountsArePositive ==
    /\ \A id \in DOMAIN transactions :
          /\ transactions[id].amount > 0
          /\ transactions[id].type \in {"income", "expense"}
    /\ \A k \in 1..Len(incomes) :
          /\ incomes[k].amount > 0
          /\ incomes[k].from \in DOMAIN transactions =>
                /\ transactions[incomes[k].from].type = "income"
                /\ transactions[incomes[k].from].amount = incomes[k].amount
    /\ \A k \in 1..Len(expenses) :
          /\ expenses[k].amount > 0
          /\ expenses[k].from \in DOMAIN transactions =>
                /\ transactions[expenses[k].from].type = "expense"
                /\ transactions[expenses[k].from].amount = expenses[k].amount

\* a staged income and a staged expense have both been promoted
C15_Witness ==
    /\ \E k \in 1..Len(incomes) : incomes[k].from \in DOMAIN transactions
    /\ \E k \in 1..Len(expenses) :
          /\ expenses[k].from \in DOMAIN transactions
          /\ expenses[k].amount = 15050

(***************************************************************************)
(* C16.  An accepted import into the empty store, none of whose inserts    *)
(* the store refuses, leaves exactly one staged transaction for every      *)
(* valid data row of the file and none besides; their number is the        *)
(* report's successful, and each belongs to the uploading user, carries    *)
(* the source label of the request, and has imported = TRUE and            *)
(* processed = FALSE.                                                      *)
(***************************************************************************)
C16_OneStagedPerValidRow ==
    LET lines == SplitLines(reply.req.content)
    IN  (Uploaded /\ reply.success) =>
            /\ Cardinality(DOMAIN transactions) = Cardinality(ValidUnder(lines))
            /\ reply.data.successful = Cardinality(ValidUnder(lines))
            /\ \A n \in ValidUnder(lines) :
                  \E kind \in {"income", "expense"} : StagedAs(lines, n, kind)
            /\ \A id \in DOMAIN transactions :
                  /\ transactions[id].userId = reply.req.user
                  /\ transactions[id].source = Trim(reply.req.source)
                  /\ transactions[id].imported
                  /\ ~transactions[id].processed

(***************************************************************************)
(* Properties of the tokenizer.  A comma is outside quotes when an even    *)
(* number of quote characters precedes it; the line is cut at these commas *)
(* and at nothing else.                                                    *)
(***************************************************************************)
Cuts(line) ==
    {i \in 1..Len(line) :
        /\ CharAt(line, i) = ","
        /\ Cardinality({j \in 1..(i - 1) : CharAt(line, j) = "\""}) % 2 = 0}

\* the k-th cut of the line; position 0 before the first, Len(line) + 1 after the last
CutAt(line, k) ==
    IF k = 0 THEN 0
    ELSE IF k > Cardinality(Cuts(line)) THEN Len(line) + 1
    ELSE CHOOSE c \in Cuts(line) : Cardinality({d \in Cuts(line) : d < c}) = k - 1

RECURSIVE Unquoted(_)
\* the text without its quote characters
Unquoted(text) ==
    IF text = "" THEN ""
    ELSE IF CharAt(text, 1) = "\"" THEN Unquoted(Tail(text))
    ELSE CharAt(text, 1) \o Unquoted(Tail(text))

(***************************************************************************)
(* C17.  For every line the tokenizer returns one value more than the line *)
(* has commas outside quotes; the k-th value is the text between the       *)
(* (k-1)-th and the k-th such comma, commas inside quotes included,        *)
(* without its quote characters and trimmed.  The line                     *)
(* 2024-01-01,"Coffee, and Bagels",4.50,expense gives four values, the     *)
(* second being Coffee, and Bagels, and the empty line gives one empty     *)
(* value.                                                                  *)
(***************************************************************************)
C17_TokenizerCutsOutsideQuotes ==
    reply.op = "tokenize" =>
        LET line == reply.line
            values == reply.values
        IN  /\ Len(values) = 1 + Cardinality(Cuts(line))
            /\ \A k \in 1..Len(values) :
                  values[k] = Trim(Unquoted(SubSeq(line, CutAt(line, k - 1) + 1,
                                                   CutAt(line, k) - 1)))
            /\ line = "" => values = << "" >>
            /\ line = "2024-01-01,\"Coffee, and Bagels\",4.50,expense" =>
                  values = << "2024-01-01", "Coffee, and Bagels", "4.50", "expense" >>

\* the line with a quoted comma has been tokenized into four values
C17_Witness ==
    /\ reply.op = "tokenize"
    /\ reply.line = "2024-01-01,\"Coffee, and Bagels\",4.50,expense"
    /\ Len(reply.values) = 4
    /\ reply.values[2] = "Coffee, and Bagels"

(***************************************************************************)
(* C18.  Whenever a promotion writes an expense to the ledger, its         *)
(* category id is the caller's override for that transaction id if the     *)
(* request has one; else the id of the first category of the caller whose  *)
(* name equals the staged transaction's category hint ignoring case; else, *)
(* the hint being absent or matching no name, the id of the caller's first *)
(* category.  The step adds no error to the call.                          *)
(***************************************************************************)
C18_CategoryResolutionOrder ==
    [][\A p \in Slots :
          (calls[p].pc = "create" /\ Len(expenses') = Len(expenses) + 1
              /\ calls'[p] # calls[p]) =>
              LET c == calls[p]
                  id == c.ids[c.i]
                  hint == transactions[id].category
                  owned == UserCategories(c.user)
                  named == {k \in 1..Len(owned) :
                               /\ hint # NULL
                               /\ ToLowerCase(owned[k].name) = ToLowerCase(hint)}
                  expected == IF id \in DOMAIN c.cm THEN c.cm[id]
                              ELSE IF named # {} THEN owned[Min(named)].id
                              ELSE owned[1].id
                  entry == expenses'[Len(expenses')]
              IN  /\ entry.from = id
                  /\ entry.categoryId = expected
                  /\ calls'[p].results.errors = c.results.errors
                  /\ calls'[p].results.expensesCreated = c.results.expensesCreated + 1]_vars

\* without an override, an expense whose hint food matches none of u1's categories
\* (Rent, Travel) has been written with u1's first category
C18_Witness ==
    /\ calls[1].pc = "update"
    /\ calls[1].user = "u1"
    /\ calls[1].cm = <<>>
    /\ calls[1].results.errors = <<>>
    /\ categories[2].name = "Travel"
    /\ expenses # <<>>
    /\ expenses[Len(expenses)].from = calls[1].ids[calls[1].i]
    /\ transactions[expenses[Len(expenses)].from].category = "food"
    /\ expenses[Len(expenses)].categoryId = 1

(***************************************************************************)
(* C19.  A promotion call of a user who has no category fails as a whole   *)
(* before any row is touched: no call of such a user ever enters the loop  *)
(* over the ids, and the step that answers it reports failure with the     *)
(* no-categories error and leaves the staged transactions and both ledgers *)
(* as they were, whatever the selected ids are.                            *)
(***************************************************************************)
C19_NoCategoriesFailsWholeCall ==
    [][/\ \A p \in Slots :
             calls'[p].pc # "idle" => UserCategories(calls'[p].user) # <<>>
       /\ (reply'.op = "promote" /\ UserCategories(reply'.user) = <<>>) =>
             /\ ~reply'.success
             /\ reply'.error =
                   "No categories found. Please create categories before processing transactions."
             /\ reply'.data = NoResults
             /\ calls' = calls
             /\ transactions' = transactions
             /\ incomes' = incomes
             /\ expenses' = expenses]_vars

\* a user without categories has asked to promote uncommitted income transactions of
\* their own and nothing else; the call has failed and they are still uncommitted
C19_Witness ==
    /\ reply.op = "promote"
    /\ ~reply.success
    /\ UserCategories(reply.user) = <<>>
    /\ \A k \in 1..Len(reply.ids) :
          /\ reply.ids[k] \in DOMAIN transactions
          /\ transactions[reply.ids[k]].userId = reply.user
          /\ transactions[reply.ids[k]].type = "income"
          /\ ~transactions[reply.ids[k]].processed
          /\ LedgerFrom(reply.ids[k]) = 0

(***************************************************************************)
(* C20.  When a promotion call has returned, every position of its id list *)
(* has ended either in one created ledger record or in one error, and      *)
(* every listed id that names a staged transaction of the caller is        *)
(* committed with exactly one ledger record, wherever it stands in the     *)
(* list and whatever other ids the list holds, unless the call reports     *)
(* that writing that very transaction failed.  The ids reported as not     *)
(* found are missing, another user's, or committed.                        *)
(***************************************************************************)
C20_UnpromotableIdDoesNotBlock ==
    (reply.op = "promote" /\ reply.success) =>
        LET errors == reply.data.errors
            Faulted(id) == \E e \in 1..Len(errors) :
                              errors[e].id = id /\ errors[e].error = "Failed to process"
        IN  /\ reply.data.incomeCreated + reply.data.expensesCreated + Len(errors)
                  = Len(reply.ids)
            /\ \A k \in 1..Len(reply.ids) :
                  LET id == reply.ids[k]
                  IN  (/\ id \in DOMAIN transactions
                       /\ transactions[id].userId = reply.user
                       /\ ~Faulted(id)) =>
                          /\ transactions[id].processed
                          /\ LedgerFrom(id) = 1
            /\ \A e \in 1..Len(errors) :
                  errors[e].error = "not found or already processed" =>
                      \/ errors[e].id \notin DOMAIN transactions
                      \/ transactions[errors[e].id].userId # reply.user
                      \/ transactions[errors[e].id].processed

\* the first id of the list is another user's transaction and is reported; the second,
\* the caller's own, has been promoted by the same call
C20_Witness ==
    /\ reply.op = "promote"
    /\ reply.success
    /\ Len(reply.ids) = 2
    /\ reply.ids[1] \in DOMAIN transactions
    /\ transactions[reply.ids[1]].userId # reply.user
    /\ ~transactions[reply.ids[1]].processed
    /\ Len(reply.data.errors) = 1
    /\ reply.data.errors[1].id = reply.ids[1]
    /\ reply.ids[2] \in DOMAIN transactions
    /\ transactions[reply.ids[2]].userId = reply.user
    /\ transactions[reply.ids[2]].processed
    /\ LedgerFrom(reply.ids[2]) = 1
    /\ reply.data.incomeCreated + reply.data.expensesCreated = 1

(***************************************************************************)
(* C21.  When a call looks up an id that is not in the store, belongs to   *)
(* another user, or is already committed, that step appends exactly one    *)
(* error, for that id, to the call's errors, counts nothing as created,    *)
(* writes no ledger record, leaves every staged transaction as it was and  *)
(* moves on to the next position without a create or an update for it.     *)
(***************************************************************************)
C21_UnpromotableIdIsReportedOnce ==
    [][\A p \in Slots :
          (calls[p].pc = "find" /\ calls'[p] # calls[p]) =>
              LET c == calls[p]
                  id == c.ids[c.i]
                  after == IF calls'[p].pc = "idle" THEN reply'.data ELSE calls'[p].results
              IN  (\/ id \notin DOMAIN transactions
                   \/ transactions[id].userId # c.user
                   \/ transactions[id].processed) =>
                      /\ after.errors = Append(c.results.errors,
                                               [id |-> id, error |-> "not found or already processed"])
                      /\ after.incomeCreated = c.results.incomeCreated
                      /\ after.expensesCreated = c.results.expensesCreated
                      /\ transactions' = transactions
                      /\ incomes' = incomes
                      /\ expenses' = expenses
                      /\ calls'[p].pc \in {"find", "idle"}
                      /\ calls'[p].pc = "find" => calls'[p].i = c.i + 1]_vars

\* a call for one id, an uncommitted transaction of another user, has returned: one
\* error for the id, nothing created, the transaction still uncommitted with no record
C21_Witness ==
    /\ reply.op = "promote"
    /\ reply.success
    /\ Len(reply.ids) = 1
    /\ reply.ids[1] \in DOMAIN transactions
    /\ transactions[reply.ids[1]].userId # reply.user
    /\ ~transactions[reply.ids[1]].processed
    /\ LedgerFrom(reply.ids[1]) = 0
    /\ reply.data.errors = <<[id |-> reply.ids[1], error |-> "not found or already processed"]>>
    /\ reply.data.incomeCreated + reply.data.expensesCreated = 0

(***************************************************************************)
(* C22.  In every import report the preview holds at most 10 rows, as many *)
(* as min(10, successful), and its k-th row is the row stored by the k-th  *)
(* insert of the call: the rows that failed validation or whose insert was *)
(* refused are not in it, and the order is the order of the file.          *)
(***************************************************************************)
C22_PreviewIsFirstTenStored ==
    (reply.op = "import" /\ reply.success) =>
        LET preview == reply.data.preview
        IN  /\ Len(preview) <= 10
            /\ Len(preview) = Min({10, reply.data.successful})
            /\ reply.data.successful = nextTxnId - 1
            /\ \A k \in 1..Len(preview) :
                  /\ k \in DOMAIN transactions
                  /\ transactions[k].amount = preview[k].amount
                  /\ transactions[k].description = Trim(preview[k].description)
                  /\ transactions[k].type = preview[k].type
                  /\ transactions[k].date = NewDate(preview[k].date)

\* eleven rows were stored, after a first row whose insert was refused: the preview is
\* rows 2 to 11 of the file
C22_Witness ==
    /\ reply.op = "import"
    /\ reply.success
    /\ reply.data.successful = 11
    /\ reply.data.failed = 1
    /\ reply.data.errors[1].row = 1
    /\ Len(reply.data.preview) = 10
    /\ reply.data.preview[1].description = "Item 2"
    /\ reply.data.preview[10].description = "Item 11"

(***************************************************************************)
(* C23.  In every state, under every interleaving of promote and delete    *)
(* requests, a staged income or expense transaction that is committed has  *)
(* a record in the ledger of its kind that was made from it and carries    *)
(* its amount, description, date and owner: the ledger write comes before  *)
(* the flip.                                                               *)
(***************************************************************************)
C23_LedgerWritePrecedesFlip ==
    \A id \in DOMAIN transactions :
        LET t == transactions[id]
            ledger == IF t.type = "income" THEN incomes ELSE expenses
        IN  (t.processed /\ t.type \in {"income", "expense"}) =>
                \E k \in 1..Len(ledger) :
                    /\ ledger[k].from = id
                    /\ ledger[k].amount = t.amount
                    /\ ledger[k].description = t.description
                    /\ ledger[k].date = t.date
                    /\ ledger[k].userId = t.userId

\* one call has written the expense record of a transaction and not yet flipped it,
\* while a transaction promoted earlier is committed with its income record
C23_Witness ==
    \E p \in Slots, id \in DOMAIN transactions :
        /\ calls[p].pc = "update"
        /\ calls[p].ids[1] \in DOMAIN transactions
        /\ ~transactions[calls[p].ids[1]].processed
        /\ transactions[calls[p].ids[1]].type = "expense"
        /\ \E k \in 1..Len(expenses) : expenses[k].from = calls[p].ids[1]
        /\ transactions[id].processed
        /\ transactions[id].type = "income"
        /\ \E k \in 1..Len(incomes) : incomes[k].from = id

(***************************************************************************)
(* C24.  When the create of the ledger record of an id fails, that step    *)
(* writes nothing to either ledger, leaves the staged transaction          *)
(* uncommitted and without a ledger record, appends one "Failed to         *)
(* process" error for the id, counts nothing as created, and the call goes *)
(* on with the next id, or returns successfully if the id was the last.    *)
(***************************************************************************)
C24_FailedLedgerWriteIsReported ==
    [][\A p \in Slots :
          (/\ calls[p].pc = "create"
           /\ calls'[p] # calls[p]
           /\ incomes' = incomes
           /\ expenses' = expenses) =>
              LET c == calls[p]
                  id == c.ids[c.i]
                  after == IF calls'[p].pc = "idle" THEN reply'.data ELSE calls'[p].results
              IN  /\ transactions' = transactions
                  /\ ~transactions'[id].processed
                  /\ LedgerFrom(id) = 0
                  /\ after.errors = Append(c.results.errors,
                                           [id |-> id, error |-> "Failed to process"])
                  /\ after.incomeCreated = c.results.incomeCreated
                  /\ after.expensesCreated = c.results.expensesCreated
                  /\ IF c.i < Len(c.ids)
                     THEN calls'[p].pc = "find" /\ calls'[p].i = c.i + 1
                     ELSE calls'[p].pc = "idle" /\ reply'.op = "promote" /\ reply'.success]_vars

\* the create for the first of two ids failed and the second id was promoted: the first
\* is reported, uncommitted and absent from the ledger
C24_Witness ==
    /\ reply.op = "promote"
    /\ reply.success
    /\ Len(reply.ids) = 2
    /\ reply.ids[1] # reply.ids[2]
    /\ reply.data.errors = <<[id |-> reply.ids[1], error |-> "Failed to process"]>>
    /\ ~transactions[reply.ids[1]].processed
    /\ LedgerFrom(reply.ids[1]) = 0
    /\ transactions[reply.ids[2]].processed
    /\ LedgerFrom(reply.ids[2]) = 1
    /\ reply.data.incomeCreated + reply.data.expensesCreated = 1

(***************************************************************************)
(* C25.  In the role map the detection loop builds from the header of any  *)
(* uploaded file, no two roles have the same column; a role is assigned    *)
(* exactly when some column name matches its pattern (trimmed, whatever    *)
(* its case), and then to such a column, for which it is the first         *)
(* matching role in the order date, description, amount, type, category.   *)
(***************************************************************************)
C25_OneRolePerColumn ==
    reply.op = "import" =>
        LET header == UploadedHeader
            mapping == DetectFrom(header, 1, [f \in {} |-> 0])
            RoleAt(r) == Roles[r]
        IN  /\ \A f, g \in DOMAIN mapping : f # g => mapping[f] # mapping[g]
            /\ \A r \in 1..Len(Roles) :
                  /\ RoleAt(r) \in DOMAIN mapping <=> ColumnsOf(header, RoleAt(r)) # {}
                  /\ RoleAt(r) \in DOMAIN mapping =>
                        /\ mapping[RoleAt(r)] \in ColumnsOf(header, RoleAt(r))
                        /\ \A q \in 1..(r - 1) :
                              mapping[RoleAt(r)] \notin ColumnsOf(header, RoleAt(q))

\* a header with two date columns, a description column and no amount, type or category
\* column: date and description are assigned, to different columns, the rest is not
C25_Witness ==
    /\ reply.op = "import"
    /\ UploadedHeader = <<"memo", "date", "Posted Date">>
    /\ DOMAIN DetectFrom(UploadedHeader, 1, [f \in {} |-> 0]) = {"date", "description"}
    /\ DetectFrom(UploadedHeader, 1, [f \in {} |-> 0])["description"] = 0
    /\ DetectFrom(UploadedHeader, 1, [f \in {} |-> 0])["date"] \in {1, 2}

(***************************************************************************)
(* C26.  Every expense record in the ledger carries the id of a category   *)
(* of the user who owns the record, also when the promote request supplied *)
(* a category override for the transaction.                                *)
(***************************************************************************)
C26_ExpenseCategoryIsOwn ==
    \A k \in 1..Len(expenses) :
        \E c \in 1..Len(categories) :
            /\ categories[c].id = expenses[k].categoryId
            /\ categories[c].userId = expenses[k].userId

(***************************************************************************)
(* C27.  When a promotion call has returned successfully, under every      *)
(* interleaving with other promote and delete requests, every position of  *)
(* its id list is either counted as created or reported as an error, not   *)
(* both: incomeCreated + expensesCreated + the number of errors is the     *)
(* number of ids, and an id with no error is a committed staged            *)
(* transaction with a ledger record.                                       *)
(***************************************************************************)
C27_EveryIdAccountedOnce ==
    (reply.op = "promote" /\ reply.success) =>
        LET errors == reply.data.errors
            Reported(id) == \E e \in 1..Len(errors) : errors[e].id = id
        IN  /\ reply.data.incomeCreated + reply.data.expensesCreated + Len(errors)
                  = Len(reply.ids)
            /\ \A k \in 1..Len(reply.ids) :
                  ~Reported(reply.ids[k]) =>
                      /\ reply.ids[k] \in DOMAIN transactions
                      /\ transactions[reply.ids[k]].processed
                      /\ LedgerFrom(reply.ids[k]) >= 1

\* the staged transactions of user u, the only part of the store a request of u may depend on
OwnRows(u) ==
    [id \in {i \in DOMAIN transactions : transactions[i].userId = u} |-> transactions[id]]

\* the staged transactions of the users other than u
OthersRows(u) == {id \in DOMAIN transactions : transactions[id].userId # u}

(***************************************************************************)
(* C28.  A step of a promote call or a delete request of user u, whatever  *)
(* ids it lists, leaves every staged transaction of another user in the    *)
(* store and unchanged, and writes ledger records only for u and only from *)
(* staged transactions of u.  What the step does is determined by u's own  *)
(* staged transactions: a lookup finds the id exactly when it is an        *)
(* uncommitted transaction among them and reads that row, and a delete     *)
(* removes and counts exactly the listed uncommitted transactions among    *)
(* them; so a difference in other users' staged data cannot show in u's    *)
(* result.                                                                 *)
(***************************************************************************)
C28_OtherUsersDataUntouched ==
    [][/\ \A p \in Slots :
            (calls[p].pc # "idle" /\ calls'[p] # calls[p]) =>
                LET c == calls[p]
                    id == c.ids[c.i]
                    own == OwnRows(c.user)
                IN  /\ \A o \in OthersRows(c.user) :
                          o \in DOMAIN transactions' /\ transactions'[o] = transactions[o]
                    /\ \A k \in (Len(incomes) + 1)..Len(incomes') :
                          /\ incomes'[k].userId = c.user
                          /\ incomes'[k].from \in DOMAIN own
                    /\ \A k \in (Len(expenses) + 1)..Len(expenses') :
                          /\ expenses'[k].userId = c.user
                          /\ expenses'[k].from \in DOMAIN own
                    /\ c.pc = "find" =>
                          /\ calls'[p].pc = "create" <=>
                                (id \in DOMAIN own /\ ~own[id].processed)
                          /\ calls'[p].pc = "create" => calls'[p].txn = <<own[id]>>
       /\ reply'.op = "delete" =>
            LET own == OwnRows(reply'.user)
                gone == {id \in DOMAIN own :
                            /\ \E k \in 1..Len(reply'.ids) : reply'.ids[k] = id
                            /\ ~own[id].processed}
            IN  /\ \A o \in OthersRows(reply'.user) :
                      o \in DOMAIN transactions' /\ transactions'[o] = transactions[o]
                /\ DOMAIN transactions' = DOMAIN transactions \ gone
                /\ reply'.deleted = Cardinality(gone)
                /\ incomes' = incomes
                /\ expenses' = expenses]_vars

\* a delete listing an uncommitted transaction of another user and one of the caller's
\* own has removed the caller's and left the other's in the store
C28_Witness ==
    /\ reply.op = "delete"
    /\ reply.deleted = 1
    /\ Len(reply.ids) = 2
    /\ reply.ids[1] \in DOMAIN transactions
    /\ transactions[reply.ids[1]].userId # reply.user
    /\ ~transactions[reply.ids[1]].processed
    /\ reply.ids[2] \notin DOMAIN transactions
    /\ reply.ids[2] < nextTxnId

(***************************************************************************)
(* C29.  In every report of an import, successful + failed is the number   *)
(* of rows the parser handed to importTransactions, errors has one entry   *)
(* for each failed row, and successful is the number of staged             *)
(* transactions the call added to the store.                               *)
(***************************************************************************)
C29_ReportIsConsistent ==
    (reply.op = "import" /\ reply.success) =>
        LET handed == parseCSVContent(reply.req.content).rows
        IN  /\ reply.data.successful + reply.data.failed = Len(handed)
            /\ Len(reply.data.errors) = reply.data.failed
            /\ reply.data.successful = Cardinality(DOMAIN transactions)
            /\ reply.data.successful = nextTxnId - 1

\* of three rows handed over, one failed validation, one was refused by the store and
\* one was stored
C29_Witness ==
    /\ reply.op = "import"
    /\ reply.success
    /\ reply.data.successful = 1
    /\ reply.data.failed = 2
    /\ Len(reply.data.errors) = 2
    /\ reply.data.errors[1].error = "Invalid date format"
    /\ reply.data.errors[2].error = "Failed to import"
    /\ Cardinality(DOMAIN transactions) = 1

(***************************************************************************)
(* C30.  With a header that has the mandatory columns and a type column,   *)
(* any two valid data rows of a file whose type token names no keyword,    *)
(* because the cell is absent or empty or because its text contains        *)
(* neither an income nor an expense keyword, are staged with the same      *)
(* kind.                                                                   *)
(***************************************************************************)
C30_KindDependsOnTypeTokenAlone ==
    LET lines == SplitLines(reply.req.content)
        roles == RolesOf(parseCSVLine(lines[1]))
        TypeToken(n) == ValueAt(RowValues(lines, n), roles, "type")
        NamesKeyword(n) ==
            /\ TypeToken(n) # NULL
            /\ \E w \in IncomeKeywords \cup ExpenseKeywords :
                  Includes(ToLowerCase(TypeToken(n)), w)
    IN  (Uploaded /\ MandatoryRoles \cup {"type"} \subseteq DOMAIN roles) =>
            \A n, m \in ValidUnder(lines) :
                (~NamesKeyword(n) /\ ~NamesKeyword(m)) =>
                    \E kind \in {"income", "expense"} :
                        StagedAs(lines, n, kind) /\ StagedAs(lines, m, kind)

====
